---- MODULE Spec2Model ----
(***************************************************************************)
(* STWDO offer monitor (src/stwdo_offer_monitor.ts).                       *)
(*                                                                         *)
(* The polling loop main() runs checkOnce() again and again.  One cycle    *)
(* loads the retrieval meta, performs a conditional GET, saves the new     *)
(* meta, extracts the offers from the markup, loads the seen-set, computes *)
(* the new offers, notifies, and saves the seen-set.  Every await of       *)
(* checkOnce is one step of the model; the two JSON files and the          *)
(* environment configuration are the persistent state.                     *)
(*                                                                         *)
(* Strings of the program are strings here.  The string functions the code *)
(* uses (startsWith, includes, trim, the keyword regex, new URL) are given *)
(* by their values on the finite set of strings the model draws from.      *)
(***************************************************************************)
EXTENDS Integers, Sequences, FiniteSets, TLC

VARIABLES
    env,          \* process.env as read at module load (lines 60-73)
    metaFile,     \* content of stwdo-meta.json
    seenFile,     \* content of stwdo-last.json
    pc,           \* position of main()/checkOnce()
    meta,         \* checkOnce: const meta
    res,          \* checkOnce: const res (the axios response)
    offers,       \* checkOnce: const offers
    lastSeenIds,  \* checkOnce: const lastSeenIds (a Set, in insertion order)
    newOffers,    \* checkOnce: const newOffers
    calls,        \* history: what this cycle has invoked so far
    atStart,      \* history: the two files as they were when the cycle began
    outcome,      \* history: how the cycle ended
    dispatch,     \* history: what notifyNewOffers did in this cycle
    prev,         \* history: the markup of the last content cycle, if it completed
    repeat,       \* history: this cycle received the markup prev holds
    handed,       \* history: the list this cycle passed to notifyNewOffers
    announced,    \* history: the ids passed to notifyNewOffers so far
    writeFailed,  \* history: a write of stwdo-last.json has failed
    failedBefore  \* history: the cycle before this one ended in an error

vars == <<env, metaFile, seenFile, pc, meta, res, offers, lastSeenIds,
          newOffers, calls, atStart, outcome, dispatch, prev, repeat,
          handed, announced, writeFailed, failedBefore>>

(***************************************************************************)
(* Bounds                                                                  *)
(***************************************************************************)
\* longest markup (number of teaser / anchor elements) a response carries
MaxElems == 2

(***************************************************************************)
(* JavaScript values                                                       *)
(***************************************************************************)
Undefined == "<undefined>"

\* JS truthiness of a string-or-undefined value: undefined and "" are falsy
Truthy(v) == v # Undefined /\ v # ""

Range(s) == {s[i] : i \in 1..Len(s)}

\* new Set(array): the distinct elements, in order of first appearance
RECURSIVE SetFromArray(_)
SetFromArray(a) ==
    IF a = <<>> THEN <<>>
    ELSE LET front == SetFromArray(SubSeq(a, 1, Len(a) - 1))
             x == a[Len(a)]
         IN  IF x \in Range(front) THEN front ELSE Append(front, x)

\* Set.prototype.add
SetAdd(s, x) == IF x \in Range(s) THEN s ELSE Append(s, x)

(***************************************************************************)
(* Strings the markup is built from, and the string functions on them      *)
(***************************************************************************)
MONITOR_URL == "https://www.stwdo.de/wohnen/aktuelle-wohnangebote#residential-offer-list"

InvalidURL == "<TypeError: Invalid URL>"

\* String.prototype.startsWith
startsWith(s, prefix) ==
    CASE prefix = "http" ->
            s \in {"https://www.stwdo.de/wohnen/angebot/1",
                   "https://www.stwdo.de/wohnen/angebot/2",
                   "https://www.stwdo.de/impressum",
                   "https://example.org/wohnen"}
      [] prefix = "/" ->
            s \in {"/wohnen/angebot/1", "/wohnen/angebot/2", "/impressum", "//["}
      [] OTHER -> FALSE

\* String.prototype.includes
includes(s, part) ==
    CASE part = "stwdo.de" ->
            s \in {"https://www.stwdo.de/wohnen/angebot/1",
                   "https://www.stwdo.de/wohnen/angebot/2",
                   "https://www.stwdo.de/impressum"}
      [] OTHER -> FALSE

\* String.prototype.trim
trim(s) == IF s = " " THEN "" ELSE s

\* /wohn|zimmer|apartment|angebot|bewerb/i.test(s)
keywordTest(s) ==
    s \in {"Zimmer frei", "Apartment", "Zimmer",
           "/wohnen/angebot/1", "/wohnen/angebot/2",
           "https://www.stwdo.de/wohnen/angebot/1",
           "https://www.stwdo.de/wohnen/angebot/2",
           "https://example.org/wohnen"}

\* new URL(href, MONITOR_URL).toString(); InvalidURL when the constructor throws
NewURL(href, base) ==
    CASE href = "/wohnen/angebot/1" -> "https://www.stwdo.de/wohnen/angebot/1"
      [] href = "/wohnen/angebot/2" -> "https://www.stwdo.de/wohnen/angebot/2"
      [] href = "/impressum"        -> "https://www.stwdo.de/impressum"
      [] href = "//["               -> InvalidURL
      [] OTHER                      -> href

(***************************************************************************)
(* Markup: the elements of the page the selectors of the extractor can     *)
(* match, in document order.                                               *)
(***************************************************************************)
\* an element matched by "#residential-offer-list .teaser[data-href]"
Teaser(dataHref, location, headline) ==
    [tag |-> "teaser", within |-> "#residential-offer-list", href |-> dataHref,
     location |-> location, headline |-> headline, text |-> ""]

\* an element matched by "a[href]", inside the container `within`
Anchor(within, href, text) ==
    [tag |-> "a", within |-> within, href |-> href,
     location |-> "", headline |-> "", text |-> text]

RECURSIVE SeqsUpTo(_, _)
SeqsUpTo(S, n) ==
    IF n = 0 THEN {<<>>}
    ELSE LET shorter == SeqsUpTo(S, n - 1)
         IN  shorter \cup {Append(s, x) : s \in shorter, x \in S}

(***************************************************************************)
(* extractOffersFromHtml (lines 109-169)                                   *)
(***************************************************************************)
\* Map.prototype.has on offersMap (a Map is its entries in insertion order)
MapHas(map, id) == \E i \in 1..Len(map) : map[i].id = id

\* Map.prototype.set: a new key is appended, an existing key keeps its
\* position and takes the new value
MapSet(map, id, value) ==
    IF MapHas(map, id)
    THEN [i \in 1..Len(map) |-> IF map[i].id = id THEN value ELSE map[i]]
    ELSE Append(map, value)

\* line 129 / line 159: the absolute URL of a link
absoluteOf(href) ==
    IF startsWith(href, "http") THEN href ELSE NewURL(href, MONITOR_URL)

\* $("#residential-offer-list .teaser[data-href]") (line 119)
teaserList(html) == SelectSeq(html, LAMBDA el : el.tag = "teaser")

\* variant of teaserCallback: the title without its fallback to the URL
teaserCallback_noFallback(st, el) ==
    LET dataHref  == el.href
        location  == trim(el.location)
        title     == trim(el.headline)
        fullTitle == IF location # "" THEN location \o ": " \o title ELSE title
        absolute  == absoluteOf(dataHref)
        id        == absolute
    IN  IF dataHref = "" THEN st
        ELSE IF absolute = InvalidURL THEN [st EXCEPT !.threw = TRUE]
        ELSE [st EXCEPT !.map =
                MapSet(st.map, id,
                       [id |-> id, title |-> fullTitle, url |-> absolute])]

\* the callback of teaserList.each (lines 121-132) on one element; st is
\* [threw, map]: whether new URL has thrown, and offersMap
teaserCallback(st, el) ==
    LET dataHref  == el.href
        location  == trim(el.location)
        title     == trim(el.headline)
        fullTitle == IF location # "" THEN location \o ": " \o title ELSE title
        absolute  == absoluteOf(dataHref)
        id        == absolute
    IN  IF dataHref = "" THEN st
        ELSE IF absolute = InvalidURL THEN [st EXCEPT !.threw = TRUE]
        ELSE [st EXCEPT !.map =
                MapSet(st.map, id,
                       [id |-> id,
                        title |-> IF fullTitle # "" THEN fullTitle ELSE absolute,
                        url |-> absolute])]

\* the callback of anchors.each (lines 150-165) on one element
anchorCallback(st, el) ==
    LET href        == el.href
        text        == trim(el.text)
        isInternal  == startsWith(href, "/") \/ includes(href, "stwdo.de")
        hasKeywords == keywordTest(text) \/ keywordTest(href)
        absolute    == absoluteOf(href)
        id          == absolute
    IN  IF href = "" THEN st
        ELSE IF ~(isInternal /\ hasKeywords) THEN st
        ELSE IF absolute = InvalidURL THEN [st EXCEPT !.threw = TRUE]
        ELSE IF MapHas(st.map, id) THEN st
        ELSE [st EXCEPT !.map =
                MapSet(st.map, id,
                       [id |-> id,
                        title |-> IF text # "" THEN text ELSE absolute,
                        url |-> absolute])]

\* cheerio's each: the callback on every element in document order; an
\* exception thrown by the callback ends the iteration
RECURSIVE each(_, _, _, _)
each(list, i, st, callback) ==
    IF i > Len(list) \/ st.threw THEN st
    ELSE each(list, i + 1,
              IF callback = "teaser" THEN teaserCallback(st, list[i])
                                     ELSE anchorCallback(st, list[i]),
              callback)

\* line 136
containers == <<"main", "#content", ".container", ".content">>

\* c.find("a[href]") for c = $(sel)
findAnchors(html, sel) ==
    SelectSeq(html, LAMBDA el : el.tag = "a" /\ el.within = sel)

\* $("a[href]")
allAnchors(html) == SelectSeq(html, LAMBDA el : el.tag = "a")

\* the loop of lines 138-144 from container k on, then lines 146-148
RECURSIVE pickAnchors(_, _, _)
pickAnchors(html, k, anchors) ==
    IF k > Len(containers)
    THEN IF anchors = <<>> THEN allAnchors(html) ELSE anchors
    ELSE LET found == findAnchors(html, containers[k])
         IN  IF found # <<>> THEN found
             ELSE pickAnchors(html, k + 1, found)

\* the structural strategy (lines 116-132)
structural(html) ==
    each(teaserList(html), 1, [threw |-> FALSE, map |-> <<>>], "teaser")

\* the fallback strategy (lines 135-166), entered with offersMap empty
fallback(html) ==
    each(pickAnchors(html, 1, <<>>), 1, [threw |-> FALSE, map |-> <<>>],
         "anchor")

\* extractOffersFromHtml: [threw, offers, fallbackRan]; offers is
\* Array.from(offersMap.values()), fallbackRan is whether the body of the if
\* of line 135 was entered
extractOffersFromHtml(html) ==
    LET s1 == structural(html)
        fallbackRan == ~s1.threw /\ Len(s1.map) = 0
        s2 == IF fallbackRan THEN fallback(html) ELSE s1
    IN  [threw |-> s2.threw, offers |-> IF s2.threw THEN <<>> ELSE s2.map,
         fallbackRan |-> fallbackRan]

(***************************************************************************)
(* notifyNewOffers (lines 171-216)                                         *)
(***************************************************************************)
\* variant of messageLines: only the first offer is listed
messageLines_first(os) ==
    IF os = <<>> THEN <<>> ELSE <<os[1].title \o " - " \o os[1].url>>

\* line 174: one line per offer
messageLines(os) == [i \in 1..Len(os) |-> os[i].title \o " - " \o os[i].url]

Dispatch(channel, lines, posts, result, threw) ==
    [channel |-> channel, lines |-> lines, posts |-> posts, result |-> result,
     threw |-> threw]

NoDispatch == Dispatch("none", <<>>, 0, "none", FALSE)

\* variant of missingConfig: the missing configuration raised as an error
missingConfig_throw(channel, lines) ==
    Dispatch(channel, lines, 0, "missing-config", TRUE)

\* lines 179-182 / 196-199: the selected channel lacks its configuration:
\* console.error and break
missingConfig(channel, lines) ==
    Dispatch(channel, lines, 0, "missing-config", FALSE)

\* variant of tryPost: the post without its try/catch
tryPost_noCatch(channel, lines, postOk) ==
    Dispatch(channel, lines, 1, IF postOk THEN "sent" ELSE "failed", ~postOk)

\* lines 183-192 / 200-205: the post inside its try/catch; postOk is whether
\* axios.post resolved
tryPost(channel, lines, postOk) ==
    Dispatch(channel, lines, 1, IF postOk THEN "sent" ELSE "failed", FALSE)

\* notifyNewOffers: what was dispatched, how many requests went out, and
\* whether an exception left the function
notifyNewOffers(os, e, postOk) ==
    LET lines == messageLines(os)
    IN  IF Len(os) = 0 THEN NoDispatch
        ELSE CASE e.NOTIFY_METHOD = "telegram" ->
                    IF ~Truthy(e.TELEGRAM_BOT_TOKEN) \/ ~Truthy(e.TELEGRAM_CHAT_ID)
                    THEN missingConfig("telegram", lines)
                    ELSE tryPost("telegram", lines, postOk)
               [] e.NOTIFY_METHOD = "webhook" ->
                    IF ~Truthy(e.WEBHOOK_URL)
                    THEN missingConfig("webhook", lines)
                    ELSE tryPost("webhook", lines, postOk)
               [] e.NOTIFY_METHOD = "email" ->
                    Dispatch("email", lines, 0, "not-implemented", FALSE)
               [] OTHER ->
                    Dispatch("console", lines, 0, "logged", FALSE)

(***************************************************************************)
(* The values the environment supplies                                     *)
(***************************************************************************)
\* process.env after lines 66-73; an unset variable is undefined
Env(method, token, chat, url) ==
    [NOTIFY_METHOD |-> method, TELEGRAM_BOT_TOKEN |-> token,
     TELEGRAM_CHAT_ID |-> chat, WEBHOOK_URL |-> url]

Envs ==
    {Env("telegram", "123:abc", "42", Undefined),
     Env("telegram", Undefined, "42", Undefined),
     Env("telegram", "123:abc", Undefined, Undefined)}
    \cup {Env("webhook", Undefined, Undefined, u) :
            u \in {Undefined, "https://hooks.example.org/x"}}
    \cup {Env("email", Undefined, Undefined, Undefined),
          Env("console", Undefined, Undefined, Undefined)}

\* stwdo-meta.json: absent, unparseable, the JSON value null, or an object
MetaFile(kind, etag, lastModified) ==
    [kind |-> kind, etag |-> etag, lastModified |-> lastModified]

InitialMetaFiles ==
    {MetaFile(k, Undefined, Undefined) : k \in {"absent", "corrupt", "null"}}
    \cup {MetaFile("object", "\"v1\"", "Mon")}

\* stwdo-last.json: absent, unparseable, parseable without an offers array,
\* or { offers: [...] }
SeenFile(kind, ids) == [kind |-> kind, offers |-> ids]

InitialSeenFiles ==
    {SeenFile(k, <<>>) : k \in {"absent", "corrupt", "badshape"}}
    \cup {SeenFile("ok", <<"https://www.stwdo.de/wohnen/angebot/1">>)}

\* the elements of the pages served to the polling loop
CycleElems ==
    {Teaser("/wohnen/angebot/1", "", "Apartment"),
     Teaser("/wohnen/angebot/2", "Dortmund", "Zimmer"),
     Teaser("https://www.stwdo.de/wohnen/angebot/1", "", "Zimmer"),
     Teaser("//[", "", "Apartment")}

CycleMarkups == SeqsUpTo(CycleElems, MaxElems)

\* what axios(axiosConfig) ends with: a response, or no response at all
Response(kind, status, etag, lastModified, data) ==
    [kind |-> kind, status |-> status, etag |-> etag,
     lastModified |-> lastModified, data |-> data]

NoResponse == Response("none", 0, Undefined, Undefined, <<>>)

Responses ==
    {Response("response", 200, h[1], h[2], d) :
        h \in {<<Undefined, Undefined>>, <<"\"v2\"", Undefined>>,
               <<"", "Tue">>, <<"\"v2\"", "Tue">>},
        d \in CycleMarkups}
    \cup {Response("response", st, Undefined, Undefined, <<>>) : st \in {304, 404}}
    \cup {Response(k, 0, Undefined, Undefined, <<>>) : k \in {"network-error", "timeout"}}

(***************************************************************************)
(* StateStore (lines 78-107)                                               *)
(***************************************************************************)
\* variant of loadLastSeen: the file is not read
loadLastSeen_empty(file) == [offers |-> <<>>]

\* loadLastSeen: never throws; the offers array of the file, else []
loadLastSeen(file) ==
    IF file.kind = "ok" THEN [offers |-> file.offers] ELSE [offers |-> <<>>]

\* saveLastSeen
saveLastSeen(data) == SeenFile("ok", data.offers)

\* loadMeta: {} when absent or unparseable, else the parsed value
loadMeta(file) ==
    IF file.kind \in {"absent", "corrupt"}
    THEN [isNull |-> FALSE, etag |-> Undefined, lastModified |-> Undefined]
    ELSE [isNull |-> file.kind = "null", etag |-> file.etag,
          lastModified |-> file.lastModified]

\* saveMeta
saveMeta(m) == MetaFile("object", m.etag, m.lastModified)

(***************************************************************************)
(* checkOnce (lines 219-276), one action per await                         *)
(***************************************************************************)
\* lines 221-223: the request headers built from meta
headers(m) ==
    [UserAgent |-> "stwdo-offer-monitor/1.0 (+https://github.com)",
     IfNoneMatch |-> IF Truthy(m.etag) THEN m.etag ELSE Undefined,
     IfModifiedSince |-> IF Truthy(m.lastModified) THEN m.lastModified ELSE Undefined]

\* variant of validateStatus: every status accepted
validateStatus_any(st) == TRUE

\* line 230
validateStatus(st) == (st >= 200 /\ st < 300) \/ st = 304

\* variant of classify: the early return of lines 236-239 left out
classify_no304(r) ==
    IF r.kind # "response" \/ ~validateStatus(r.status) THEN "caught:fetch"
    ELSE "content"

\* lines 234-239, 273: what the awaited request leads to: the catch when
\* axios rejects (no response, or a status validateStatus refuses), the
\* early return on 304, else the processing of the content
classify(r) ==
    IF r.kind # "response" \/ ~validateStatus(r.status) THEN "caught:fetch"
    ELSE IF r.status = 304 THEN "not-modified"
    ELSE "content"

\* whether the cycle received content (a 2xx response)
gotContent(r) == classify(r) = "content"

\* variant of newMetaOf: newMeta started from {} instead of { ...meta }
newMetaOf_noSpread(m, r) ==
    [etag |-> IF Truthy(r.etag) THEN r.etag ELSE Undefined,
     lastModified |-> IF Truthy(r.lastModified) THEN r.lastModified ELSE Undefined]

\* lines 242-244: newMeta is a copy of meta with the validators the response
\* carries (a header that is absent or empty is falsy and changes nothing)
newMetaOf(m, r) ==
    [etag |-> IF Truthy(r.etag) THEN r.etag ELSE m.etag,
     lastModified |-> IF Truthy(r.lastModified) THEN r.lastModified
                      ELSE m.lastModified]

\* variant of filterNew: the negation of line 261 left out
filterNew_seen(os, seenIds) == SelectSeq(os, LAMBDA o : o.id \in Range(seenIds))

\* line 261
filterNew(os, seenIds) == SelectSeq(os, LAMBDA o : o.id \notin Range(seenIds))

\* variant of addAll: only the new ids are kept for the write
addAll_onlyNew(seenIds, os) == [i \in 1..Len(os) |-> os[i].id]

\* variant of addAll: the new ids are not added
addAll_forget(seenIds, os) == seenIds

\* line 268
RECURSIVE addAll(_, _)
addAll(seenIds, os) ==
    IF os = <<>> THEN seenIds
    ELSE addAll(SetAdd(seenIds, Head(os).id), Tail(os))

\* variant of hasNew: the notify-and-save branch taken for every diff
hasNew_always(new) == TRUE

\* line 263: the condition of the notify-and-save branch
hasNew(new) == Len(new) # 0

\* variant of afterCheckOnce: checkOnce awaited without the try/catch
afterCheckOnce_noCatch(settled) ==
    IF settled = "rejected" THEN "exit" ELSE "sleep"

\* lines 284-290: main awaits checkOnce inside try/catch and then sleeps,
\* whether the call resolved or rejected
afterCheckOnce(settled) == "sleep"

\* the outcomes of a cycle that ended in an error
FailureOutcomes ==
    {"rejected", "caught:fetch", "caught:saveMeta", "caught:extract",
     "caught:notify", "caught:saveLastSeen"}

\* history of a cycle that has invoked nothing yet
NoCalls ==
    [loadMeta |-> 0, fetch |-> 0, saveMeta |-> 0, extract |-> 0,
     loadLastSeen |-> 0, diff |-> 0, notify |-> 0, post |-> 0,
     saveLastSeen |-> 0, metaWrites |-> 0, seenWrites |-> 0, fallback |-> 0]

\* the meta of loadMeta's {}
NoMeta == [etag |-> Undefined, lastModified |-> Undefined]

\* no content cycle has completed yet
NoPrev == [html |-> <<>>, completed |-> FALSE]

Init ==
    /\ env \in Envs
    /\ metaFile \in InitialMetaFiles
    /\ seenFile \in InitialSeenFiles
    /\ pc = "loadMeta"
    /\ meta = NoMeta
    /\ res = NoResponse
    /\ offers = <<>>
    /\ lastSeenIds = <<>>
    /\ newOffers = <<>>
    /\ calls = NoCalls
    /\ atStart = [meta |-> metaFile, seen |-> seenFile]
    /\ outcome = "none"
    /\ dispatch = NoDispatch
    /\ prev = NoPrev
    /\ repeat = FALSE
    /\ handed = <<>>
    /\ announced = {}
    /\ writeFailed = FALSE
    /\ failedBefore = FALSE

\* lines 284-286, 220-223: main calls checkOnce, which loads the meta and
\* reads meta.etag; on the JSON value null that read throws outside the try
\* of checkOnce and the rejection is caught in main (line 287)
checkOnce_loadMeta ==
    /\ pc = "loadMeta"
    /\ LET m == loadMeta(metaFile)
       IN  /\ meta' = [etag |-> m.etag, lastModified |-> m.lastModified]
           /\ pc' = IF m.isNull THEN afterCheckOnce("rejected") ELSE "fetch"
           /\ outcome' = IF m.isNull THEN "rejected" ELSE "running"
    /\ calls' = [calls EXCEPT !.loadMeta = @ + 1]
    /\ atStart' = [meta |-> metaFile, seen |-> seenFile]
    /\ UNCHANGED <<env, metaFile, seenFile, res, offers, lastSeenIds,
                   newOffers, dispatch, prev, repeat, handed, announced,
                   writeFailed, failedBefore>>

\* lines 225-239: the request; a rejected request or status goes to the
\* catch of line 273, a 304 returns
checkOnce_fetch ==
    /\ pc = "fetch"
    /\ \E r \in Responses :
        /\ res' = r
        /\ IF classify(r) = "content"
           THEN pc' = "saveMeta" /\ outcome' = "running"
           ELSE pc' = "sleep" /\ outcome' = classify(r)
        /\ repeat' = (gotContent(r) /\ prev.completed /\ prev.html = r.data)
        /\ prev' = IF gotContent(r) THEN NoPrev ELSE prev
    /\ calls' = [calls EXCEPT !.fetch = @ + 1]
    /\ failedBefore' = FALSE
    /\ UNCHANGED <<env, metaFile, seenFile, meta, offers, lastSeenIds,
                   newOffers, atStart, dispatch, handed, announced,
                   writeFailed>>

\* lines 242-245: the write may fail, which goes to the catch of line 273
checkOnce_saveMeta ==
    /\ pc = "saveMeta"
    /\ \E written \in BOOLEAN :
        IF written
        THEN /\ metaFile' = saveMeta(newMetaOf(meta, res))
             /\ pc' = "extract"
             /\ outcome' = "running"
             /\ calls' = [calls EXCEPT !.saveMeta = @ + 1, !.metaWrites = @ + 1]
        ELSE /\ metaFile' = metaFile
             /\ pc' = "sleep"
             /\ outcome' = "caught:saveMeta"
             /\ calls' = [calls EXCEPT !.saveMeta = @ + 1]
    /\ UNCHANGED <<env, seenFile, meta, res, offers, lastSeenIds, newOffers,
                   atStart, dispatch, prev, repeat, handed, announced,
                   writeFailed, failedBefore>>

\* lines 247-248: res.data is a string (responseType "text"), so html is
\* res.data; an exception of the extractor goes to the catch of line 273
checkOnce_extract ==
    /\ pc = "extract"
    /\ LET r == extractOffersFromHtml(res.data)
       IN  /\ offers' = r.offers
           /\ pc' = IF r.threw THEN "sleep" ELSE "loadLastSeen"
           /\ outcome' = IF r.threw THEN "caught:extract" ELSE "running"
           /\ calls' = [calls EXCEPT !.extract = @ + 1,
                                    !.fallback = IF r.fallbackRan THEN @ + 1 ELSE @]
    /\ UNCHANGED <<env, metaFile, seenFile, meta, res, lastSeenIds, newOffers,
                   atStart, dispatch, prev, repeat, handed, announced,
                   writeFailed, failedBefore>>

\* lines 250-263, 270-272: load the seen-set, compute the new offers;
\* loadLastSeen catches its own errors, so the catch of lines 253-256 is
\* never entered
checkOnce_loadLastSeen ==
    /\ pc = "loadLastSeen"
    /\ LET last == loadLastSeen(seenFile)
           ids  == SetFromArray(last.offers)
           new  == filterNew(offers, ids)
       IN  /\ lastSeenIds' = ids
           /\ newOffers' = new
           /\ pc' = IF hasNew(new) THEN "notify" ELSE "sleep"
           /\ outcome' = IF hasNew(new) THEN "running" ELSE "no-new"
    /\ calls' = [calls EXCEPT !.loadLastSeen = @ + 1, !.diff = @ + 1]
    /\ UNCHANGED <<env, metaFile, seenFile, meta, res, offers, atStart,
                   dispatch, prev, repeat, handed, announced, writeFailed,
                   failedBefore>>

\* lines 263-265: the notifier call; an exception leaving it would go to the
\* catch of line 273
checkOnce_notify ==
    /\ pc = "notify"
    /\ \E postOk \in BOOLEAN :
        LET d == notifyNewOffers(newOffers, env, postOk)
        IN  /\ dispatch' = d
            /\ pc' = IF d.threw THEN "sleep" ELSE "saveLastSeen"
            /\ outcome' = IF d.threw THEN "caught:notify" ELSE "running"
            /\ calls' = [calls EXCEPT !.notify = @ + 1, !.post = @ + d.posts]
    /\ handed' = newOffers
    /\ announced' = IF writeFailed THEN announced
                    ELSE announced \cup {newOffers[i].id : i \in 1..Len(newOffers)}
    /\ UNCHANGED <<env, metaFile, seenFile, meta, res, offers, lastSeenIds,
                   newOffers, atStart, prev, repeat, writeFailed, failedBefore>>

\* lines 268-269: add the new ids and write the seen-set; the write may
\* fail, which goes to the catch of line 273
checkOnce_saveLastSeen ==
    /\ pc = "saveLastSeen"
    /\ lastSeenIds' = addAll(lastSeenIds, newOffers)
    /\ \E written \in BOOLEAN :
        IF written
        THEN /\ seenFile' = saveLastSeen([offers |-> lastSeenIds'])
             /\ outcome' = "saved"
             /\ calls' = [calls EXCEPT !.saveLastSeen = @ + 1, !.seenWrites = @ + 1]
             /\ UNCHANGED <<announced, writeFailed>>
        ELSE /\ seenFile' = seenFile
             /\ outcome' = "caught:saveLastSeen"
             /\ calls' = [calls EXCEPT !.saveLastSeen = @ + 1]
             /\ announced' = {}
             /\ writeFailed' = TRUE
    /\ pc' = "sleep"
    /\ UNCHANGED <<env, metaFile, meta, res, offers, newOffers, atStart,
                   dispatch, prev, repeat, handed, failedBefore>>

(***************************************************************************)
(* main (lines 280-292)                                                    *)
(***************************************************************************)
\* line 290: the idle wait, after which the loop calls checkOnce again; the
\* locals of the finished call are gone and the history of the cycle is reset
main_sleep ==
    /\ pc = "sleep"
    /\ pc' = "loadMeta"
    /\ prev' = IF gotContent(res) /\ outcome \in {"saved", "no-new"}
               THEN [html |-> res.data, completed |-> TRUE]
               ELSE prev
    /\ meta' = NoMeta
    /\ res' = NoResponse
    /\ offers' = <<>>
    /\ lastSeenIds' = <<>>
    /\ newOffers' = <<>>
    /\ calls' = NoCalls
    /\ atStart' = [meta |-> metaFile, seen |-> seenFile]
    /\ outcome' = "none"
    /\ dispatch' = NoDispatch
    /\ repeat' = FALSE
    /\ handed' = <<>>
    /\ failedBefore' = (outcome \in FailureOutcomes)
    /\ UNCHANGED <<env, metaFile, seenFile, announced, writeFailed>>

Next ==
    \/ checkOnce_loadMeta
    \/ checkOnce_fetch
    \/ checkOnce_saveMeta
    \/ checkOnce_extract
    \/ checkOnce_loadLastSeen
    \/ checkOnce_notify
    \/ checkOnce_saveLastSeen
    \/ main_sleep

Spec == Init /\ [][Next]_vars

\* the responses the loop is given when its progress is examined: every
\* kind of failure, the 304, and the pages of at most one element
LiveResponses ==
    {r \in Responses :
        gotContent(r) => /\ Len(r.data) <= 1
                         /\ r.etag = "\"v2\""
                         /\ r.lastModified = Undefined}

\* the steps of the loop with the responses drawn from LiveResponses
NextLive ==
    \/ checkOnce_loadMeta
    \/ checkOnce_fetch /\ res' \in LiveResponses
    \/ checkOnce_saveMeta
    \/ checkOnce_extract
    \/ checkOnce_loadLastSeen
    \/ checkOnce_notify
    \/ checkOnce_saveLastSeen
    \/ main_sleep

\* the polling loop under the scheduling of the event loop: every awaited
\* operation settles (the GET has a timeout of 30 s, file operations and
\* the timer of sleep complete), so a step that can be taken is taken
SpecLive == Init /\ [][NextLive]_vars /\ WF_vars(NextLive)

(***************************************************************************)
(* The extractor on its own: every markup over a wider set of elements is  *)
(* handed to the extraction step of checkOnce.                             *)
(***************************************************************************)
ExtractElems ==
    {Teaser(h, l, t) :
        h \in {"", "/wohnen/angebot/1", "/wohnen/angebot/2",
               "https://www.stwdo.de/wohnen/angebot/1", "//["},
        l \in {"", "Dortmund"},
        t \in {" ", "Apartment", "Zimmer"}}
    \cup
    {Anchor("main", h, t) :
        h \in {"", "/impressum", "/wohnen/angebot/1",
               "https://www.stwdo.de/wohnen/angebot/1",
               "https://example.org/wohnen", "//["},
        t \in {"", "Zimmer frei", "Kontakt"}}
    \cup
    {Anchor(w, h, t) :
        w \in {"#content", "body"},
        h \in {"/wohnen/angebot/1", "/wohnen/angebot/2"},
        t \in {"", "Kontakt"}}

ExtractMarkups == SeqsUpTo(ExtractElems, MaxElems)

InitExtract ==
    /\ env = Env("console", Undefined, Undefined, Undefined)
    /\ metaFile = MetaFile("absent", Undefined, Undefined)
    /\ seenFile = SeenFile("absent", <<>>)
    /\ pc = "extract"
    /\ meta = NoMeta
    /\ \E d \in ExtractMarkups :
          res = Response("response", 200, Undefined, Undefined, d)
    /\ offers = <<>>
    /\ lastSeenIds = <<>>
    /\ newOffers = <<>>
    /\ calls = NoCalls
    /\ atStart = [meta |-> metaFile, seen |-> seenFile]
    /\ outcome = "running"
    /\ dispatch = NoDispatch
    /\ prev = NoPrev
    /\ repeat = FALSE
    /\ handed = <<>>
    /\ announced = {}
    /\ writeFailed = FALSE
    /\ failedBefore = FALSE

NextExtract == checkOnce_extract

SpecExtract == InitExtract /\ [][NextExtract]_vars

(***************************************************************************)
(* Properties                                                              *)
(***************************************************************************)
\* the ids a seen-set file holds: those of its offers array, none when the
\* file is absent, unparseable or has no offers array
PersistedIds(file) == IF file.kind = "ok" THEN Range(file.offers) ELSE {}

IdsOf(os) == {os[i].id : i \in 1..Len(os)}

\* C1: seen-set monotonicity: no step of any cycle removes an id from the
\* persisted seen-set; whatever checkOnce writes is a superset of what the
\* file held before
C1_SeenSetMonotone ==
    [][PersistedIds(seenFile) \subseteq PersistedIds(seenFile')]_vars

C1_Witness ==
    /\ calls.seenWrites = 1
    /\ PersistedIds(atStart.seen) # {}
    /\ PersistedIds(atStart.seen) # PersistedIds(seenFile)

\* the positions of the extracted offers whose id is not in the seen-set
\* that was loaded from the file
UnseenPositions == {i \in 1..Len(offers) : offers[i].id \notin PersistedIds(atStart.seen)}

\* the k-th smallest of a set of positions
Nth(positions, k) ==
    CHOOSE i \in positions : Cardinality({j \in positions : j < i}) = k - 1

\* C2: diff correctness: newOffers holds exactly the extracted offers whose
\* id is not in the loaded seen-set, each once, in the order of offers
C2_DiffCorrect ==
    calls.diff = 1 =>
        /\ Len(newOffers) = Cardinality(UnseenPositions)
        /\ \A k \in 1..Len(newOffers) : newOffers[k] = offers[Nth(UnseenPositions, k)]

C2_Witness ==
    /\ calls.diff = 1
    /\ Len(offers) = 2
    /\ Len(newOffers) = 1
    /\ newOffers[1] = offers[2]

\* C3: not-modified short-circuit: in a cycle whose fetch returned 304 the
\* extractor, the differ and the notifier are not invoked, no file is
\* written, and both files are as they were when the cycle began
C3_NotModifiedShortCircuit ==
    (res.kind = "response" /\ res.status = 304) =>
        /\ pc = "sleep"
        /\ calls.extract = 0 /\ calls.diff = 0 /\ calls.notify = 0
        /\ calls.post = 0 /\ calls.loadLastSeen = 0
        /\ calls.saveMeta = 0 /\ calls.saveLastSeen = 0
        /\ metaFile = atStart.meta
        /\ seenFile = atStart.seen

C3_Witness ==
    /\ res.kind = "response" /\ res.status = 304
    /\ pc = "sleep"
    /\ outcome = "not-modified"
    /\ atStart.meta.kind = "object"
    /\ atStart.seen.kind = "ok"

\* C6: a fetch failure mutates no state: when the request ends without a
\* response (network error, timeout) or with a status that is neither 2xx
\* nor 304, the cycle ends early, no file is written and nothing is
\* extracted or diffed
C6_FetchFailureNoMutation ==
    (calls.fetch = 1 /\ (res.kind # "response" \/ res.status \notin (200..299) \cup {304})) =>
        /\ pc = "sleep"
        /\ outcome = "caught:fetch"
        /\ calls.extract = 0 /\ calls.diff = 0 /\ calls.notify = 0
        /\ calls.saveMeta = 0 /\ calls.saveLastSeen = 0
        /\ metaFile = atStart.meta
        /\ seenFile = atStart.seen

C6_Witness ==
    /\ calls.fetch = 1
    /\ res.kind = "response" /\ res.status = 404
    /\ pc = "sleep"
    /\ atStart.meta.kind = "object"

\* the ids the seen-set must hold once the cycle has saved: those loaded
\* from the file and those of the new offers
ExpectedSeen == PersistedIds(atStart.seen) \cup IdsOf(newOffers)

\* the notifier has returned normally and the cycle has gone on to
\* saveLastSeen with the prior and the new ids; the file holds exactly
\* these unless that write itself threw
SavedAfterNotify ==
    /\ ~dispatch.threw
    /\ pc \in {"saveLastSeen", "sleep"}
    /\ pc = "sleep" =>
          /\ outcome \in {"saved", "caught:saveLastSeen"}
          /\ calls.saveLastSeen = 1
          /\ Range(lastSeenIds) = ExpectedSeen
          /\ outcome = "saved" =>
                seenFile.kind = "ok" /\ PersistedIds(seenFile) = ExpectedSeen

\* C4: channel isolation: when the post of the selected channel (telegram
\* or webhook) fails, no exception leaves notifyNewOffers and the cycle
\* still saves the seen-set with the prior ids and all new ids
C4_ChannelIsolation ==
    dispatch.result = "failed" =>
        /\ newOffers # <<>>
        /\ calls.post = 1
        /\ SavedAfterNotify

C4_Witness ==
    /\ dispatch.result = "failed"
    /\ dispatch.channel = "webhook"
    /\ outcome = "saved"
    /\ PersistedIds(atStart.seen) # {}
    /\ PersistedIds(seenFile) # PersistedIds(atStart.seen)

\* C8: a repeat cycle is silent: a cycle that receives the markup of the
\* last content cycle, which ran to its end, finds no new offer and does
\* not invoke the notifier
C8_RepeatCycleSilent ==
    repeat =>
        /\ newOffers = <<>>
        /\ calls.notify = 0
        /\ calls.post = 0
        /\ dispatch = NoDispatch
        /\ pc \notin {"notify", "saveLastSeen"}

C8_Witness ==
    /\ repeat
    /\ pc = "sleep"
    /\ outcome = "no-new"
    /\ Len(offers) = 2
    /\ atStart.seen.kind = "ok"

\* C9: missing channel configuration is not fatal: with telegram selected
\* and the bot token or the chat id unset, or webhook selected and the URL
\* unset, a cycle with new offers sends no request, raises nothing and
\* still saves the seen-set with the new ids
C9_MissingConfigNonFatal ==
    (calls.notify = 1 /\
       \/ (env.NOTIFY_METHOD = "telegram" /\
             (env.TELEGRAM_BOT_TOKEN = Undefined \/ env.TELEGRAM_CHAT_ID = Undefined))
       \/ (env.NOTIFY_METHOD = "webhook" /\ env.WEBHOOK_URL = Undefined)) =>
        /\ newOffers # <<>>
        /\ calls.post = 0
        /\ dispatch.result = "missing-config"
        /\ outcome \notin {"caught:notify", "rejected"}
        /\ SavedAfterNotify

C9_Witness ==
    /\ calls.notify = 1
    /\ env.NOTIFY_METHOD = "telegram"
    /\ env.TELEGRAM_BOT_TOKEN = Undefined
    /\ outcome = "saved"
    /\ IdsOf(newOffers) # {}
    /\ IdsOf(newOffers) \subseteq PersistedIds(seenFile)

\* the meta rule with "present" read as "the header is there"
MetaFieldAfter(header, prior) == IF header # Undefined THEN header ELSE prior

\* the meta rule of the code: an empty header value counts as no header
MetaFieldKept(header, prior) == IF header \notin {Undefined, ""} THEN header ELSE prior

\* C10 as stated: after a cycle whose fetch returned 2xx the persisted meta
\* has the etag and last-modified headers of the response where present and
\* the prior values otherwise; after a 304 the meta file is unchanged
C10_MetaUpdateRule_AsStated ==
    pc = "sleep" =>
        /\ gotContent(res) =>
              /\ metaFile.etag = MetaFieldAfter(res.etag, atStart.meta.etag)
              /\ metaFile.lastModified =
                    MetaFieldAfter(res.lastModified, atStart.meta.lastModified)
        /\ (res.kind = "response" /\ res.status = 304) => metaFile = atStart.meta

\* C10 (amended): after a cycle whose fetch returned 2xx and whose meta
\* write succeeded, the persisted meta has the etag and last-modified
\* headers of the response where present and non-empty and the prior values
\* otherwise; when the meta write failed, and after a 304, the meta file is
\* unchanged
C10_MetaUpdateRule ==
    pc = "sleep" =>
        /\ (gotContent(res) /\ calls.metaWrites = 1) =>
              /\ metaFile.kind = "object"
              /\ metaFile.etag = MetaFieldKept(res.etag, atStart.meta.etag)
              /\ metaFile.lastModified =
                    MetaFieldKept(res.lastModified, atStart.meta.lastModified)
        /\ (gotContent(res) /\ calls.metaWrites = 0) =>
              outcome = "caught:saveMeta" /\ metaFile = atStart.meta
        /\ (res.kind = "response" /\ res.status = 304) => metaFile = atStart.meta

C10_Witness ==
    /\ pc = "sleep"
    /\ gotContent(res)
    /\ calls.metaWrites = 1
    /\ res.etag = "" /\ atStart.meta.etag = "\"v1\""
    /\ res.lastModified = "Tue" /\ atStart.meta.lastModified = "Mon"
    /\ metaFile.etag = "\"v1\"" /\ metaFile.lastModified = "Tue"

\* C5 as stated: a seen-set file that is present but cannot be parsed makes
\* the cycle abort: the notifier is not invoked and the seen-set is not
\* written; an absent file is loaded as the empty set and the cycle goes on
C5_CorruptSeenAborts ==
    /\ (calls.loadLastSeen = 1 /\ atStart.seen.kind = "corrupt") =>
          /\ pc = "sleep"
          /\ calls.notify = 0
          /\ calls.saveLastSeen = 0
          /\ seenFile = atStart.seen
    /\ (calls.loadLastSeen = 1 /\ atStart.seen.kind = "absent") =>
          /\ lastSeenIds = <<>> \/ calls.saveLastSeen = 1
          /\ newOffers = offers

\* the record one element yields when it is processed on its own
RecordsOf(el, callback) ==
    IF callback = "teaser"
    THEN teaserCallback([threw |-> FALSE, map |-> <<>>], el).map
    ELSE anchorCallback([threw |-> FALSE, map |-> <<>>], el).map

\* the records of the candidates of a list of elements, in document order
RECURSIVE CandidateRecords(_, _)
CandidateRecords(list, callback) ==
    IF list = <<>> THEN <<>>
    ELSE RecordsOf(Head(list), callback) \o CandidateRecords(Tail(list), callback)

\* the candidates of the strategy that produces the result
WinningCandidates(html) ==
    LET teasers == CandidateRecords(teaserList(html), "teaser")
    IN  IF teasers # <<>> THEN teasers
        ELSE CandidateRecords(pickAnchors(html, 1, <<>>), "anchor")

\* of the records with one id, the first; in the order of first appearance
FirstOccurrences(recs) ==
    SelectSeq([i \in 1..Len(recs) |-> [at |-> i, rec |-> recs[i]]],
              LAMBDA c : \A j \in 1..(c.at - 1) : recs[j].id # c.rec.id)

\* C7 as stated: the ids of the returned records are pairwise distinct, and
\* of several candidates of one strategy with the same id the returned
\* record is that of the first in document order, title included, at the
\* position of its first appearance
C7_FirstOccurrenceWins ==
    (pc = "loadLastSeen" /\ calls.extract = 1) =>
        LET first == FirstOccurrences(WinningCandidates(res.data))
        IN  /\ \A i, j \in 1..Len(offers) : offers[i].id = offers[j].id => i = j
            /\ Len(offers) = Len(first)
            /\ \A i \in 1..Len(offers) : offers[i] = first[i].rec

\* what holds of the code: distinct ids at the positions of first
\* appearance; the fallback keeps the first record, the structural strategy
\* the last one
C7_PositionsOfFirstOccurrence ==
    (pc = "loadLastSeen" /\ calls.extract = 1) =>
        LET first == FirstOccurrences(WinningCandidates(res.data))
        IN  /\ \A i, j \in 1..Len(offers) : offers[i].id = offers[j].id => i = j
            /\ Len(offers) = Len(first)
            /\ \A i \in 1..Len(offers) : offers[i].id = first[i].rec.id
            /\ teaserList(res.data) = <<>> =>
                  \A i \in 1..Len(offers) : offers[i] = first[i].rec

\* C11 as stated: whatever the meta file holds (nothing, unparseable text,
\* or a JSON value that is not an object, such as null), loading the meta
\* and building the request headers raises no error and behaves as with
\* empty meta: the cycle goes on to the fetch, without conditional headers
C11_MetaCorruptionNeverThrows ==
    (calls.loadMeta = 1 /\ atStart.meta.kind \in {"absent", "corrupt", "null"}) =>
        /\ outcome # "rejected"
        /\ pc = "fetch" \/ calls.fetch = 1
        /\ headers(meta).IfNoneMatch = Undefined
        /\ headers(meta).IfModifiedSince = Undefined

\* what holds of the code: an absent or unparseable meta file is loaded as
\* {} and the request carries no conditional header
C11_AbsentOrUnparseableMeta ==
    (calls.loadMeta = 1 /\ atStart.meta.kind \in {"absent", "corrupt"}) =>
        /\ outcome # "rejected"
        /\ pc = "fetch" \/ calls.fetch = 1
        /\ headers(meta).IfNoneMatch = Undefined
        /\ headers(meta).IfModifiedSince = Undefined

\* the elements of a markup whose link is there and resolves
Resolvable(el) == el.href # "" /\ absoluteOf(el.href) # InvalidURL

\* C12 as stated: extractOffersFromHtml returns a list for every markup and
\* never raises; an element whose link is missing or does not resolve to an
\* absolute URL yields no record, and every teaser with a resolvable link
\* still has its record in the result
C12_UnresolvableLinksSkipped ==
    calls.extract = 1 =>
        /\ outcome # "caught:extract"
        /\ \A i \in 1..Len(res.data) :
              LET el == res.data[i]
              IN  (el.tag = "teaser" /\ Resolvable(el)) =>
                      absoluteOf(el.href) \in IdsOf(offers)
        /\ \A i \in 1..Len(offers) :
              \E j \in 1..Len(res.data) :
                  Resolvable(res.data[j]) /\ absoluteOf(res.data[j].href) = offers[i].id

\* what holds of the code: a missing link (an empty attribute) is skipped,
\* and whenever no link of the processed strategy is unresolvable the
\* extractor returns the records of all teasers with a link
C12_MissingLinksSkipped ==
    (calls.extract = 1 /\ \A i \in 1..Len(res.data) : res.data[i].href # "//[") =>
        /\ outcome # "caught:extract"
        /\ \A i \in 1..Len(res.data) :
              LET el == res.data[i]
              IN  (el.tag = "teaser" /\ Resolvable(el)) =>
                      absoluteOf(el.href) \in IdsOf(offers)
        /\ \A i \in 1..Len(offers) :
              \E j \in 1..Len(res.data) :
                  Resolvable(res.data[j]) /\ absoluteOf(res.data[j].href) = offers[i].id

\* C13 as stated: the fallback runs exactly when the structural strategy
\* produced no record; when the structural strategy produced a record, the
\* result is returned and consists of the structural records only
C13_TwoTierExtraction ==
    calls.extract = 1 =>
        LET teasers == CandidateRecords(teaserList(res.data), "teaser")
        IN  /\ calls.fallback = 1 <=> teasers = <<>>
            /\ teasers # <<>> =>
                  /\ outcome # "caught:extract"
                  /\ IdsOf(offers) = IdsOf(teasers)
                  /\ \A i \in 1..Len(offers) : offers[i] \in Range(teasers)

\* what holds of the code: when no teaser link is unresolvable, the
\* fallback runs exactly when no teaser yields a record, and otherwise the
\* result consists of teaser records only
C13_TwoTierWithoutThrow ==
    (calls.extract = 1 /\ \A i \in 1..Len(res.data) :
                             res.data[i].tag = "teaser" => res.data[i].href # "//[") =>
        LET teasers == CandidateRecords(teaserList(res.data), "teaser")
        IN  /\ calls.fallback = 1 <=> teasers = <<>>
            /\ teasers # <<>> =>
                  /\ outcome # "caught:extract"
                  /\ IdsOf(offers) = IdsOf(teasers)
                  /\ \A i \in 1..Len(offers) : offers[i] \in Range(teasers)

\* C14: no failure of a cycle ends the polling loop: the loop never leaves
\* its cycle of positions, a new cycle starts only from the sleep of a
\* settled one (cycles do not overlap), every started cycle reaches the
\* sleep, and after every sleep the next cycle starts
C14_CycleFailureContainment ==
    /\ [](pc \in {"loadMeta", "fetch", "saveMeta", "extract", "loadLastSeen",
                  "notify", "saveLastSeen", "sleep"})
    /\ [][pc' = "loadMeta" => (pc = "sleep" /\ outcome # "running")]_vars
    /\ [][outcome' = "running" => pc' # "loadMeta"]_vars
    /\ (pc # "sleep") ~> (pc = "sleep")
    /\ (pc = "sleep") ~> (pc = "loadMeta")

\* a cycle that ended in an error was followed by a cycle that is under way
C14_Witness == pc = "fetch" /\ failedBefore /\ calls.loadMeta = 1

\* C15: the notifier is called and a message dispatched only in a cycle
\* that received content and found new offers, and the message has one line
\* per new offer of that cycle, in order; a cycle that ends with a fetch
\* failure, a 304 or no new offer dispatches nothing
C15_NotificationsForOffersOnly ==
    /\ (dispatch # NoDispatch \/ calls.notify > 0 \/ calls.post > 0) =>
          /\ gotContent(res)
          /\ newOffers # <<>>
          /\ \A i \in 1..Len(newOffers) :
                newOffers[i].id \notin PersistedIds(atStart.seen)
          /\ Len(dispatch.lines) = Len(newOffers)
          /\ \A i \in 1..Len(newOffers) :
                dispatch.lines[i] = newOffers[i].title \o " - " \o newOffers[i].url
    /\ outcome \in {"caught:fetch", "not-modified", "no-new", "rejected"} =>
          /\ dispatch = NoDispatch
          /\ calls.notify = 0
          /\ calls.post = 0

\* a message listing two new offers was sent
C15_Witness ==
    /\ dispatch.result = "sent"
    /\ Len(newOffers) = 2
    /\ Len(dispatch.lines) = 2

\* an element without location, headline and anchor text
NoText(el) ==
    trim(el.location) = "" /\ trim(el.headline) = "" /\ trim(el.text) = ""

\* C16: every returned record has a non-empty title, and is the record of
\* an element of the markup; when that element has no location, headline
\* or anchor text the title is the id
C16_TitleNeverEmpty ==
    calls.extract = 1 =>
        \A i \in 1..Len(offers) :
            /\ offers[i].title # ""
            /\ \E j \in 1..Len(res.data) :
                  LET el == res.data[j]
                  IN  /\ RecordsOf(el, IF el.tag = "teaser" THEN "teaser"
                                                             ELSE "anchor")
                            = <<offers[i]>>
                      /\ NoText(el) => offers[i].title = offers[i].id

\* a teaser without text gave a record whose title is its id
C16_Witness ==
    /\ calls.extract = 1
    /\ \E i \in 1..Len(offers) :
          /\ offers[i].title = offers[i].id
          /\ \E j \in 1..Len(res.data) :
                /\ res.data[j].tag = "teaser"
                /\ NoText(res.data[j])
                /\ absoluteOf(res.data[j].href) = offers[i].id

\* the persisted meta holds a validator the response of this cycle carried
MetaHoldsValidatorsOf(r) ==
    /\ metaFile.kind = "object"
    /\ \/ Truthy(r.etag) /\ metaFile.etag = r.etag
       \/ Truthy(r.lastModified) /\ metaFile.lastModified = r.lastModified

\* C17 as stated: when a cycle has ended, however it ended, and the
\* persisted meta holds the validators of its response, the persisted
\* seen-set holds the id of every offer of that response
C17_MetaAndSeenSameCycle ==
    (pc = "sleep" /\ gotContent(res) /\ calls.metaWrites = 1
                  /\ MetaHoldsValidatorsOf(res)) =>
        IdsOf(WinningCandidates(res.data)) \subseteq PersistedIds(seenFile)

\* what holds of the code: the ids are persisted when the cycle ran to its
\* end
C17_SeenHoldsIdsOfCompletedCycle ==
    (pc = "sleep" /\ outcome \in {"saved", "no-new"}) =>
        IdsOf(WinningCandidates(res.data)) \subseteq PersistedIds(seenFile)

\* C18: a cycle reads the seen-set at most once and writes it at most
\* once; it writes only with a non-empty diff and after the notifier call
\* has returned; a content cycle without new offers leaves the file as it
\* was
C18_SeenWrittenOnlyWhenNew ==
    /\ calls.loadLastSeen <= 1
    /\ calls.saveLastSeen <= 1
    /\ calls.seenWrites <= calls.saveLastSeen
    /\ calls.saveLastSeen = 1 =>
          /\ newOffers # <<>>
          /\ calls.notify = 1
          /\ ~dispatch.threw
    /\ seenFile # atStart.seen => calls.seenWrites = 1
    /\ outcome = "no-new" =>
          /\ gotContent(res)
          /\ calls.saveLastSeen = 0
          /\ seenFile = atStart.seen

\* a content cycle whose offers were all in the seen-set file has ended
C18_Witness ==
    /\ pc = "sleep"
    /\ outcome = "no-new"
    /\ offers # <<>>
    /\ atStart.seen.kind = "ok"
    /\ calls.loadLastSeen = 1
    /\ seenFile = atStart.seen

\* C19: as long as no write of the seen-set has failed, no offer handed to
\* the notifier has an id that was handed to it in an earlier cycle
C19_AtMostOnceAnnouncement ==
    (pc = "notify" /\ ~writeFailed) => IdsOf(newOffers) \cap announced = {}

\* a cycle whose markup differs from that of the content cycle before it
\* shows offers that were all announced before, and announces none
C19_Witness ==
    /\ pc = "sleep"
    /\ ~writeFailed
    /\ ~repeat
    /\ outcome = "no-new"
    /\ Len(offers) = 1
    /\ IdsOf(offers) \subseteq announced
    /\ Cardinality(announced) = 2

\* C20: the ids a cycle has added to the seen-set file are ids of the list
\* handed to notifyNewOffers in that cycle, they are added only after that
\* call, and after the write they are exactly the ids of the new offers
C20_NotifyPrecedesPersist ==
    LET added == PersistedIds(seenFile) \ PersistedIds(atStart.seen)
    IN  /\ added \subseteq IdsOf(handed)
        /\ added # {} => calls.notify = 1 /\ calls.seenWrites = 1
        /\ calls.seenWrites = 1 =>
              /\ handed = newOffers
              /\ handed # <<>>
              /\ added = IdsOf(newOffers)

\* a cycle has added one id to a seen-set file that held another
C20_Witness ==
    /\ calls.seenWrites = 1
    /\ PersistedIds(atStart.seen) # {}
    /\ Cardinality(PersistedIds(seenFile) \ PersistedIds(atStart.seen)) = 1
    /\ handed # <<>>

====
